---- MODULE Spec2Model ----
(***************************************************************************)
(* Coloring and state engine of NEW_4_Color_Theorem.                       *)
(*                                                                         *)
(*  - HistoryManager (src/history.js): bounded linear undo/redo stack.     *)
(*  - TheoremEngine (src/unnamed/part_001): owns the graph, the current    *)
(*    ColorAssignment and the history.                                     *)
(*  - Greedy, Welsh-Powell, DSATUR (src/unnamed/part_002..004) and         *)
(*    colorGraphGreedyBacktrack (src/coloring.js).                         *)
(*                                                                         *)
(* JavaScript objects that are mutated in place (the `assignments` map of  *)
(* a ColorAssignment) live in a heap addressed by object ids, so that      *)
(* sharing between the live state and stored snapshots is observable.      *)
(***************************************************************************)
EXTENDS Integers, Sequences, FiniteSets, TLC

(* ------------------------------ bounds -------------------------------- *)

\* largest capacity (maxSteps / maxUndoSteps) a manager is constructed with
MaxCap == 2

\* number of operations issued on one HistoryManager
MaxOps == 4

\* largest colour index in a state pushed to a HistoryManager
MaxColorIndex == 1

(* --------------------------- value universe --------------------------- *)

\* node identifiers, in the order graphs list their nodes
IdSeq == <<"a", "b", "c", "d", "e", "f", "g">>

NodeIds == {IdSeq[i] : i \in 1..Len(IdSeq)}

\* an identifier that is never a node of a loaded graph
UnknownId == "z"

AllIds == NodeIds \cup {UnknownId}

\* `undefined`: the key is absent from the assignments object, the option is not given
Undef == -1

\* colors[i] of a vertex that has no colour yet
Uncolored == -1

\* the empty assignments object {}
EmptyAssignments == [id \in AllIds |-> Undef]

\* heap cell that holds no object
Free == [id \in AllIds |-> -2]

\* object ids: every snapshot of a full stack, the transient one before the
\* shift, the live colouring and the object the caller still holds
ObjIds == 1..(MaxCap + 3)

EmptyHeap == [i \in ObjIds |-> Free]

\* JavaScript null (a manager's "nothing to move to", an unset field)
Null == [null |-> TRUE]

Max(a, b) == IF a >= b THEN a ELSE b
Min(a, b) == IF a <= b THEN a ELSE b

\* Object.values(assignments): the colour indices present in the map
Values(asg) == {asg[id] : id \in {x \in DOMAIN asg : asg[x] # Undef}}

VARIABLES
  maxSteps,         \* HistoryManager.maxSteps
  stack,            \* HistoryManager.stack: sequence of snapshots
  index,            \* HistoryManager.index: -1 when the stack is empty
  heap,             \* object id -> contents of an assignments object
  currentGraph,     \* TheoremEngine.currentGraph (Null before loadGraph)
  currentColoring,  \* TheoremEngine.currentColoring (Null before first use)
  held,             \* assignments object of the ColorAssignment last returned to the caller (0: none)
  clock,            \* Date.now(), also the number of operations issued
  lastOp,           \* name of the operation that produced this state
  ret,              \* what that operation returned
  args,             \* arguments the engine operation was called with
  pre,              \* observable state before that operation
  pushed,           \* values handed to push since the manager was constructed
  moves,            \* undo / redo calls made since the manager was constructed
  algIn,            \* graph and options handed to a colouring algorithm
  algOut            \* what the algorithm returned (Null before it ran)

algVars == <<algIn, algOut>>

vars == <<maxSteps, stack, index, heap, currentGraph, currentColoring, held,
          clock, lastOp, ret, args, pre, pushed, moves, algIn, algOut>>

(* ------------------------------- heap --------------------------------- *)

\* the lowest free cell: where `new` puts the next object
NewId(h) == CHOOSE i \in ObjIds : h[i] = Free /\ \A j \in ObjIds : j < i => h[j] # Free

\* cells reachable from the stack, the live colouring and the caller
Roots(stk, cur, hd) ==
  {stk[i].asg : i \in 1..Len(stk)}
    \cup (IF cur = Null THEN {} ELSE {cur.asg})
    \cup (IF hd = 0 THEN {} ELSE {hd})

\* garbage collection: unreachable cells hold nothing
Collect(h, roots) == [i \in ObjIds |-> IF i \in roots THEN h[i] ELSE Free]

\* a stored or live colouring with its assignments object read through the heap
Deref(c, h) == IF c = Null THEN Null ELSE [c EXCEPT !.asg = h[c.asg]]

StackValues(stk, h) == [i \in 1..Len(stk) |-> Deref(stk[i], h)]

\* what a caller can observe of the manager and the engine
Observe ==
  [stack |-> StackValues(stack, heap), index |-> index,
   coloring |-> Deref(currentColoring, heap), graph |-> currentGraph,
   lastOp |-> lastOp]

(* ------------------- HistoryManager (src/history.js) ------------------- *)

\* a "clone" that hands back the same object
structuredClone_sameObject(s, h) == [val |-> s, heap |-> h]

\* structuredClone(state): a fresh object with the same contents
structuredClone(s, h) ==
  LET id == NewId(h)
  IN  [val |-> [s EXCEPT !.asg = id], heap |-> [h EXCEPT ![id] = h[s.asg]]]

\* push that evicts the newest entry instead of the oldest
push_dropNewest(stk, idx, cap, h, state) ==
  LET kept  == SubSeq(stk, 1, idx + 1)
      c     == structuredClone(state, h)
      grown == Append(kept, c.val)
      cut   == IF Len(grown) > cap THEN SubSeq(grown, 1, Len(grown) - 1) ELSE grown
  IN  [stack |-> cut, index |-> Len(cut) - 1, heap |-> c.heap]

\* push that keeps the redo branch
push_noTruncate(stk, idx, cap, h, state) ==
  LET c     == structuredClone(state, h)
      grown == Append(stk, c.val)
      cut   == IF Len(grown) > cap THEN Tail(grown) ELSE grown
  IN  [stack |-> cut, index |-> Len(cut) - 1, heap |-> c.heap]

\* push that never evicts the oldest entry
push_keepsOldest(stk, idx, cap, h, state) ==
  LET kept  == SubSeq(stk, 1, idx + 1)
      c     == structuredClone(state, h)
      grown == Append(kept, c.val)
  IN  [stack |-> grown, index |-> Len(grown) - 1, heap |-> c.heap]

\* HistoryManager.push(state)
push(stk, idx, cap, h, state) ==
  LET kept  == SubSeq(stk, 1, idx + 1)
      c     == structuredClone(state, h)
      grown == Append(kept, c.val)
      cut   == IF Len(grown) > cap THEN Tail(grown) ELSE grown
  IN  [stack |-> cut, index |-> Len(cut) - 1, heap |-> c.heap]

\* undo that returns the entry it moved away from
undo_returnsOld(stk, idx, h) ==
  IF idx <= 0
    THEN [ret |-> Null, index |-> idx, heap |-> h]
    ELSE LET c == structuredClone(stk[idx + 1], h)
         IN  [ret |-> c.val, index |-> idx - 1, heap |-> c.heap]

\* undo that answers with the first entry when the cursor is already on it
undo_answersAtFirst(stk, idx, h) ==
  IF idx < 0
    THEN [ret |-> Null, index |-> idx, heap |-> h]
    ELSE LET c == structuredClone(stk[Max(idx, 1)], h)
         IN  [ret |-> c.val, index |-> Max(idx - 1, 0), heap |-> c.heap]

\* HistoryManager.undo()
undo(stk, idx, h) ==
  IF idx <= 0
    THEN [ret |-> Null, index |-> idx, heap |-> h]
    ELSE LET c == structuredClone(stk[idx], h)
         IN  [ret |-> c.val, index |-> idx - 1, heap |-> c.heap]

\* HistoryManager.redo()
redo(stk, idx, h) ==
  IF idx >= Len(stk) - 1
    THEN [ret |-> Null, index |-> idx, heap |-> h]
    ELSE LET c == structuredClone(stk[idx + 2], h)
         IN  [ret |-> c.val, index |-> idx + 1, heap |-> c.heap]

(* --------- a HistoryManager driven directly by its caller -------------- *)

\* contents of the state objects the caller pushes
Payloads == {[id \in AllIds |-> IF id = "a" THEN c ELSE Undef] : c \in 0..MaxColorIndex}

HMInit ==
  /\ maxSteps \in 0..MaxCap
  /\ stack = <<>>
  /\ index = -1
  /\ heap = EmptyHeap
  /\ currentGraph = Null
  /\ currentColoring = Null
  /\ held = 0
  /\ clock = 0
  /\ lastOp = "new"
  /\ ret = Null
  /\ args = Null
  /\ pre = Null
  /\ pushed = <<>>
  /\ moves = <<>>
  /\ algIn = Null
  /\ algOut = Null

\* history.push(state): the caller builds a state object and pushes it
HMPush(v) ==
  /\ clock < MaxOps
  /\ LET id == NewId(heap)
         h1 == [heap EXCEPT ![id] = v]
         r  == push(stack, index, maxSteps, h1, [asg |-> id])
     IN  /\ stack' = r.stack
         /\ index' = r.index
         /\ heap' = Collect(r.heap, Roots(r.stack, Null, held))
  /\ pushed' = Append(pushed, [asg |-> v])
  /\ lastOp' = "push"
  /\ ret' = Null
  /\ pre' = Observe
  /\ clock' = clock + 1
  /\ UNCHANGED <<maxSteps, currentGraph, currentColoring, held, args, moves, algVars>>

\* history.undo(): the caller keeps the snapshot it gets back
HMUndo ==
  /\ clock < MaxOps
  /\ LET r == undo(stack, index, heap)
         hd == IF r.ret = Null THEN held ELSE r.ret.asg
     IN  /\ index' = r.index
         /\ ret' = Deref(r.ret, r.heap)
         /\ held' = hd
         /\ heap' = Collect(r.heap, Roots(stack, Null, hd))
  /\ moves' = Append(moves, "undo")
  /\ lastOp' = "undo"
  /\ pre' = Observe
  /\ clock' = clock + 1
  /\ UNCHANGED <<maxSteps, stack, currentGraph, currentColoring, args, pushed, algVars>>

\* history.redo()
HMRedo ==
  /\ clock < MaxOps
  /\ LET r == redo(stack, index, heap)
         hd == IF r.ret = Null THEN held ELSE r.ret.asg
     IN  /\ index' = r.index
         /\ ret' = Deref(r.ret, r.heap)
         /\ held' = hd
         /\ heap' = Collect(r.heap, Roots(stack, Null, hd))
  /\ moves' = Append(moves, "redo")
  /\ lastOp' = "redo"
  /\ pre' = Observe
  /\ clock' = clock + 1
  /\ UNCHANGED <<maxSteps, stack, currentGraph, currentColoring, args, pushed, algVars>>

\* the caller writes into the snapshot it was handed by undo / redo
HMMutateHeld(c) ==
  /\ clock < MaxOps
  /\ held # 0
  /\ heap' = [heap EXCEPT ![held]["b"] = c]
  /\ lastOp' = "mutate"
  /\ ret' = Null
  /\ pre' = Observe
  /\ clock' = clock + 1
  /\ UNCHANGED <<maxSteps, stack, index, currentGraph, currentColoring, held, args, pushed, moves, algVars>>

HMNext ==
  \/ \E v \in Payloads : HMPush(v)
  \/ HMUndo
  \/ HMRedo
  \/ \E c \in 0..MaxColorIndex : HMMutateHeld(c)

SpecHM == HMInit /\ [][HMNext]_vars

(* ----------------- properties of the HistoryManager -------------------- *)

\* C1: with capacity c >= 1, after k > c pushes and no undo or redo, the stack
\* holds exactly the last c pushed snapshots in push order, its length is c
\* and the cursor is at the last index.
C1_LastPushesRetained ==
  (moves = <<>> /\ maxSteps >= 1 /\ Len(pushed) > maxSteps) =>
     /\ Len(stack) = maxSteps
     /\ \A j \in 1..maxSteps :
          Deref(stack[j], heap) = pushed[Len(pushed) - maxSteps + j]
     /\ index = Len(stack) - 1

\* more pushes than the capacity, the oldest differing from the newest
C1_Witness ==
  /\ moves = <<>> /\ maxSteps >= 1 /\ Len(pushed) > maxSteps
  /\ lastOp = "push"
  /\ pushed[1] # pushed[Len(pushed)]

\* what push must leave behind, given the manager before it
PushKeepsPrefix ==
  LET S == pre.stack
      i == pre.index
      evicted == i + 2 > maxSteps
  IN  /\ Len(stack) = Min(i + 2, maxSteps)
      /\ index = Len(stack) - 1
      /\ \A j \in 1..(i + 1) :
           IF evicted THEN j >= 2 => Deref(stack[j - 1], heap) = S[j]
                      ELSE Deref(stack[j], heap) = S[j]

\* C3: a push discards every snapshot after the cursor: right after any push a
\* redo returns null and moves nothing, and the snapshots up to the old cursor
\* are unchanged (shifted down by one when the oldest was evicted).
C3_PushDiscardsRedoBranch ==
  [][ /\ (lastOp' = "push" => PushKeepsPrefix')
      /\ ((lastOp = "push" /\ lastOp' = "redo") => (ret' = Null /\ index' = index))
    ]_vars

\* a push made while a redo branch existed
C3_Witness ==
  /\ lastOp = "push"
  /\ pre.index >= 0
  /\ pre.index < Len(pre.stack) - 1

\* C4 as stated: after n pushes undo returns the (n-1)th pushed snapshot and the
\* redo right after it the nth, whatever the capacity.
C4_Original ==
  /\ (lastOp = "undo" /\ moves = <<"undo">> /\ Len(pushed) >= 2) =>
        ret = pushed[Len(pushed) - 1]
  /\ (lastOp = "redo" /\ pre.lastOp = "undo" /\ moves = <<"undo", "redo">>
         /\ Len(pushed) >= 2) =>
        ret = pushed[Len(pushed)]

\* C4: after n >= 2 pushes into a manager of capacity >= 2, undo returns a
\* snapshot equal to the (n-1)th pushed one and a redo right after that undo
\* returns one equal to the nth.
C4_UndoThenRedo ==
  maxSteps >= 2 => C4_Original

\* a redo right after the first undo, which followed two distinct pushes
C4_Witness ==
  /\ lastOp = "redo" /\ pre.lastOp = "undo" /\ moves = <<"undo", "redo">>
  /\ maxSteps >= 2 /\ Len(pushed) >= 2
  /\ pushed[Len(pushed)] # pushed[Len(pushed) - 1]
  /\ ret # Null

(* ----------------------------- graphs --------------------------------- *)

\* graph.nodes.length
NumNodes(graph) == Cardinality(DOMAIN graph.nodes)

\* nodeIndexMap.get(id): a later node with the same id replaces an earlier one
nodeIndex(nodes, id) ==
  LET at == {i \in DOMAIN nodes : nodes[i] = id}
  IN  IF at = {} THEN Undef ELSE CHOOSE i \in at : \A j \in at : j <= i

\* TheoremEngine._buildAdjacencyMatrix(graph)
buildAdjacencyMatrix(graph) ==
  LET n == NumNodes(graph)
      joined(i, j) ==
        \E k \in 1..Len(graph.edges) :
          LET s == nodeIndex(graph.nodes, graph.edges[k].source)
              t == nodeIndex(graph.nodes, graph.edges[k].target)
          IN  /\ s # Undef /\ t # Undef
              /\ (s = i /\ t = j) \/ (s = j /\ t = i)
  IN  [i \in 0..(n - 1) |-> [j \in 0..(n - 1) |-> IF joined(i, j) THEN 1 ELSE 0]]

\* adjacency[i].reduce((sum, val) => sum + val, 0)
RECURSIVE rowSum(_, _)
rowSum(row, upto) == IF upto < 0 THEN 0 ELSE row[upto] + rowSum(row, upto - 1)

degreeOfRow(adjacency, i) == rowSum(adjacency[i], Cardinality(DOMAIN adjacency) - 1)

\* degrees.sort((a, b) => b.degree - a.degree): descending, and stable, so
\* vertices of equal degree stay in index order
RECURSIVE sortByDegree(_, _)
sortByDegree(degree, rest) ==
  IF rest = {} THEN <<>>
  ELSE LET first == CHOOSE v \in rest :
                      \A u \in rest :
                        \/ degree[v] > degree[u]
                        \/ (degree[v] = degree[u] /\ v <= u)
       IN  <<first>> \o sortByDegree(degree, rest \ {first})

(* ---------------------- colouring algorithms --------------------------- *)

\* options.maxColors || 4
DefaultMaxColors == 4

effectiveMaxColors(options) ==
  IF options.maxColors = Undef \/ options.maxColors = 0
    THEN DefaultMaxColors ELSE options.maxColors

\* constraints.forEach(...): pin the constrained nodes, later constraints last
RECURSIVE applyConstraints(_, _, _, _)
applyConstraints(nodes, constraints, k, colors) ==
  IF k > Len(constraints) THEN colors
  ELSE LET c  == constraints[k]
           at == {i \in DOMAIN nodes : nodes[i] = c.nodeId}
           ni == IF at = {} THEN -1 ELSE CHOOSE i \in at : \A j \in at : i <= j
       IN  applyConstraints(nodes, constraints, k + 1,
             IF ni # -1 /\ c.colorIndex # Undef
               THEN [colors EXCEPT ![ni] = c.colorIndex] ELSE colors)

\* the free colours listed from the largest index down
getAvailableColors_descending(vertex, colors, adjacency, maxColors) ==
  LET usedColors == {colors[i] : i \in {j \in DOMAIN adjacency :
                                         adjacency[vertex][j] = 1 /\ colors[j] # Uncolored}}
      candidates == [c \in 1..maxColors |-> maxColors - c]
      free(c) == c \notin usedColors
  IN  SelectSeq(candidates, free)

\* _getAvailableColors(vertex, colors, adjacency, maxColors), ascending
getAvailableColors(vertex, colors, adjacency, maxColors) ==
  LET usedColors == {colors[i] : i \in {j \in DOMAIN adjacency :
                                         adjacency[vertex][j] = 1 /\ colors[j] # Uncolored}}
      candidates == [c \in 1..maxColors |-> c - 1]
      free(c) == c \notin usedColors
  IN  SelectSeq(candidates, free)

\* the four base colours of Greedy, DSATUR and the engine's default palette
baseColors == <<"#E63946", "#457B9D", "#F1C40F", "#27AE60">>

\* the four colours of Welsh-Powell
emergencyColors == <<"#DC143C", "#4169E1", "#FFD700", "#228B22">>

\* a palette entry: a base colour, or hsl(num/den, 70%, 50%)
Css(name) == [css |-> name, num |-> 0, den |-> 1]
Hsl(num, den) == [css |-> "hsl", num |-> num, den |-> den]

\* GreedyAlgorithm._generatePalette(numColors)
greedyPalette(numColors) ==
  [i \in 1..Max(0, Min(numColors, 4)) |-> Css(baseColors[i])]

\* WelshPowellAlgorithm._generatePalette(numColors)
welshPowellPalette(numColors) ==
  [i \in 1..Max(0, Min(numColors, 4)) |-> Css(emergencyColors[i])]

\* DSATURAlgorithm._generatePalette(numColors)
dsaturPalette(numColors) ==
  IF numColors <= 4
    THEN [i \in 1..Max(0, numColors) |-> Css(baseColors[i])]
    ELSE [i \in 1..numColors |->
            IF i <= 4 THEN Css(baseColors[i]) ELSE Hsl((i - 1) * 360, numColors)]

\* the colours array converted to the output mapping
toAssignments(nodes, colors) ==
  [id \in AllIds |->
     LET at == {i \in DOMAIN nodes : nodes[i] = id /\ colors[i] # Uncolored}
     IN  IF at = {} THEN Undef ELSE colors[CHOOSE i \in at : \A j \in at : j <= i]]

\* Math.max over the colours in use, -1 when there are none
maxColorUsed(colors) ==
  LET used == {colors[i] : i \in {j \in DOMAIN colors : colors[j] # Uncolored}}
  IN  IF used = {} THEN -1 ELSE CHOOSE m \in used : \A c \in used : c <= m

NoMetadata == [algorithm |-> "none", vertexOrder |-> <<>>, degreeDistribution |-> <<>>]

\* the object every algorithm returns when a vertex has no colour left
failure(palette) ==
  [assignments |-> EmptyAssignments, palette |-> palette, chromatic |-> 0,
   valid |-> FALSE, metadata |-> NoMetadata]

\* the object returned when the loop ran through
success(nodes, colors, palette, metadata) ==
  [assignments |-> toAssignments(nodes, colors), palette |-> palette,
   chromatic |-> maxColorUsed(colors) + 1, valid |-> TRUE, metadata |-> metadata]

\* colorInOrder without the test `colors[i] === -1`: pinned vertices are
\* coloured again
RECURSIVE colorInOrder_recolours(_, _, _, _, _)
colorInOrder_recolours(order, k, colors, adjacency, maxColors) ==
  IF k > Len(order) THEN [ok |-> TRUE, colors |-> colors]
  ELSE LET v == order[k]
           availableColors == getAvailableColors(v, colors, adjacency, maxColors)
       IN  IF Len(availableColors) = 0 THEN [ok |-> FALSE, colors |-> colors]
           ELSE colorInOrder_recolours(order, k + 1,
                  [colors EXCEPT ![v] = availableColors[1]], adjacency, maxColors)

\* smallest-available-colour pass over `order` from position k on;
\* ok is FALSE when some vertex has no colour left (the early return)
RECURSIVE colorInOrder(_, _, _, _, _)
colorInOrder(order, k, colors, adjacency, maxColors) ==
  IF k > Len(order) THEN [ok |-> TRUE, colors |-> colors]
  ELSE LET v == order[k]
       IN  IF colors[v] # Uncolored
             THEN colorInOrder(order, k + 1, colors, adjacency, maxColors)
             ELSE LET availableColors == getAvailableColors(v, colors, adjacency, maxColors)
                  IN  IF Len(availableColors) = 0 THEN [ok |-> FALSE, colors |-> colors]
                      ELSE colorInOrder(order, k + 1,
                             [colors EXCEPT ![v] = availableColors[1]], adjacency, maxColors)

\* GreedyAlgorithm.compute(graph, options)
GreedyCompute(graph, options) ==
  LET n == NumNodes(graph)
      maxColors == effectiveMaxColors(options)
      pinned == applyConstraints(graph.nodes, options.constraints, 1,
                                 [i \in 0..(n - 1) |-> Uncolored])
      r == colorInOrder([i \in 1..n |-> i - 1], 1, pinned, graph.adjacency, maxColors)
  IN  IF ~r.ok THEN failure(greedyPalette(maxColors))
      ELSE success(graph.nodes, r.colors, greedyPalette(maxColorUsed(r.colors) + 1),
                   NoMetadata)

\* WelshPowellAlgorithm.compute(graph, options)
WelshPowellCompute(graph, options) ==
  LET n == NumNodes(graph)
      maxColors == effectiveMaxColors(options)
      degrees == sortByDegree([i \in 0..(n - 1) |-> degreeOfRow(graph.adjacency, i)],
                              0..(n - 1))
      pinned == applyConstraints(graph.nodes, options.constraints, 1,
                                 [i \in 0..(n - 1) |-> Uncolored])
      r == colorInOrder(degrees, 1, pinned, graph.adjacency, maxColors)
  IN  IF ~r.ok THEN failure(welshPowellPalette(maxColors))
      ELSE success(graph.nodes, r.colors, welshPowellPalette(maxColorUsed(r.colors) + 1),
                   [algorithm |-> "Welsh-Powell",
                    vertexOrder |-> [i \in 1..n |-> graph.nodes[degrees[i]]],
                    degreeDistribution |->
                      [i \in 1..n |-> degreeOfRow(graph.adjacency, degrees[i])]])

\* DSATURAlgorithm._getSaturationDegree(vertex, colors, adjacency)
getSaturationDegree(vertex, colors, adjacency) ==
  Cardinality({colors[i] : i \in {j \in DOMAIN adjacency :
                                    adjacency[vertex][j] = 1 /\ colors[j] # Uncolored}})

\* a scan that lets a later vertex win a tie on saturation and degree
RECURSIVE chooseVertex_lastOnTies(_, _, _, _, _)
chooseVertex_lastOnTies(i, n, colors, adjacency, best) ==
  IF i >= n THEN best.chosenVertex
  ELSE IF colors[i] # Uncolored THEN chooseVertex_lastOnTies(i + 1, n, colors, adjacency, best)
  ELSE LET sat == getSaturationDegree(i, colors, adjacency)
           deg == degreeOfRow(adjacency, i)
       IN  IF sat > best.maxSat \/ (sat = best.maxSat /\ deg >= best.maxDeg)
             THEN chooseVertex_lastOnTies(i + 1, n, colors, adjacency,
                               [maxSat |-> sat, maxDeg |-> deg, chosenVertex |-> i])
             ELSE chooseVertex_lastOnTies(i + 1, n, colors, adjacency, best)

\* the scan `for (let i = 0; i < n; i++)` that picks the next vertex:
\* best is [maxSat, maxDeg, chosenVertex]
RECURSIVE chooseVertex(_, _, _, _, _)
chooseVertex(i, n, colors, adjacency, best) ==
  IF i >= n THEN best.chosenVertex
  ELSE IF colors[i] # Uncolored THEN chooseVertex(i + 1, n, colors, adjacency, best)
  ELSE LET sat == getSaturationDegree(i, colors, adjacency)
           deg == degreeOfRow(adjacency, i)
       IN  IF sat > best.maxSat \/ (sat = best.maxSat /\ deg > best.maxDeg)
             THEN chooseVertex(i + 1, n, colors, adjacency,
                               [maxSat |-> sat, maxDeg |-> deg, chosenVertex |-> i])
             ELSE chooseVertex(i + 1, n, colors, adjacency, best)

\* the loop `while (colored < n)`
RECURSIVE dsaturLoop(_, _, _, _, _)
dsaturLoop(colored, n, colors, adjacency, maxColors) ==
  IF colored >= n THEN [ok |-> TRUE, colors |-> colors]
  ELSE LET chosenVertex == chooseVertex(0, n, colors, adjacency,
                             [maxSat |-> -1, maxDeg |-> -1, chosenVertex |-> -1])
       IN  IF chosenVertex = -1 THEN [ok |-> TRUE, colors |-> colors]
           ELSE LET availableColors ==
                      getAvailableColors(chosenVertex, colors, adjacency, maxColors)
                IN  IF Len(availableColors) = 0 THEN [ok |-> FALSE, colors |-> colors]
                    ELSE dsaturLoop(colored + 1, n,
                           [colors EXCEPT ![chosenVertex] = availableColors[1]],
                           adjacency, maxColors)

\* constraints.filter(c => c.colorIndex !== undefined).length
pinnedCount(constraints) ==
  Cardinality({k \in 1..Len(constraints) : constraints[k].colorIndex # Undef})

\* DSATURAlgorithm.compute(graph, options)
DSATURCompute(graph, options) ==
  LET n == NumNodes(graph)
      maxColors == effectiveMaxColors(options)
      pinned == applyConstraints(graph.nodes, options.constraints, 1,
                                 [i \in 0..(n - 1) |-> Uncolored])
      r == dsaturLoop(pinnedCount(options.constraints), n, pinned, graph.adjacency, maxColors)
  IN  IF ~r.ok THEN failure(dsaturPalette(maxColors))
      ELSE success(graph.nodes, r.colors, dsaturPalette(maxColorUsed(r.colors) + 1),
                   NoMetadata)

(* -------------- colorGraphGreedyBacktrack (src/coloring.js) ------------ *)

\* isSafe(v, c)
isSafe(adjacency, colors, v, c) ==
  \A u \in DOMAIN adjacency : ~(adjacency[v][u] # 0 /\ colors[u] = c)

\* greedyPrefill(): a vertex with every colour taken stays at -1
RECURSIVE greedyPrefill(_, _, _, _, _)
greedyPrefill(adjacency, k, order, i, colors) ==
  IF i > Len(order) THEN colors
  ELSE LET v == order[i]
           used == {colors[u] : u \in {w \in DOMAIN adjacency :
                                          adjacency[v][w] # 0 /\ colors[w] # Uncolored}}
           unused == {c \in 0..(k - 1) : c \notin used}
           c == IF unused = {} THEN -1 ELSE CHOOSE x \in unused : \A y \in unused : x <= y
       IN  greedyPrefill(adjacency, k, order, i + 1, [colors EXCEPT ![v] = c])

\* backtrack(idx): [found, colors]; tryColors is its loop over c = from..k-1
RECURSIVE backtrack(_, _, _, _, _)
RECURSIVE tryColors(_, _, _, _, _, _)
backtrack(adjacency, k, order, idx, colors) ==
  IF idx > Len(order) THEN [found |-> TRUE, colors |-> colors]
  ELSE IF colors[order[idx]] # Uncolored
         THEN backtrack(adjacency, k, order, idx + 1, colors)
         ELSE tryColors(adjacency, k, order, idx, colors, 0)

tryColors(adjacency, k, order, idx, colors, from) ==
  IF from >= k THEN [found |-> FALSE, colors |-> colors]
  ELSE LET v == order[idx]
       IN  IF isSafe(adjacency, colors, v, from)
             THEN LET r == backtrack(adjacency, k, order, idx + 1,
                                     [colors EXCEPT ![v] = from])
                  IN  IF r.found THEN r
                      ELSE tryColors(adjacency, k, order, idx, colors, from + 1)
             ELSE tryColors(adjacency, k, order, idx, colors, from + 1)

\* degreeOf(adjacency, v): the number of truthy cells of row v
degreeOf(adjacency, v) == Cardinality({u \in DOMAIN adjacency : adjacency[v][u] # 0})

\* vertexOrderByDegree(adjacency)
vertexOrderByDegree(adjacency) ==
  sortByDegree([v \in DOMAIN adjacency |-> degreeOf(adjacency, v)], DOMAIN adjacency)

\* the search without its last loop: unresolved nodes keep -1
colorGraphGreedyBacktrack_noFallback(adjacency, k) ==
  greedyPrefill(adjacency, k, vertexOrderByDegree(adjacency), 1,
                [i \in 0..(Cardinality(DOMAIN adjacency) - 1) |-> Uncolored])

\* colorGraphGreedyBacktrack(adjacency, k): the colours array it returns
colorGraphGreedyBacktrack(adjacency, k) ==
  LET n == Cardinality(DOMAIN adjacency)
      order == vertexOrderByDegree(adjacency)
      filled == greedyPrefill(adjacency, k, order, 1, [i \in 0..(n - 1) |-> Uncolored])
      open == {i \in 1..n : filled[order[i]] = Uncolored}
      searched ==
        IF open = {} THEN filled
        ELSE backtrack(adjacency, k, order,
                       CHOOSE i \in open : \A j \in open : i <= j, filled).colors
  IN  [i \in 0..(n - 1) |-> IF searched[i] = Uncolored THEN 0 ELSE searched[i]]

\* BacktrackingAlgorithm.compute(graph, options): the engine's wrapper around
\* the search. It returns the fallback-filled colours as a ColorAssignment that
\* carries no failure flag of its own.
BacktrackingCompute(graph, options) ==
  LET colors == colorGraphGreedyBacktrack(graph.adjacency, effectiveMaxColors(options))
  IN  success(graph.nodes, colors, dsaturPalette(maxColorUsed(colors) + 1), NoMetadata)

(* ----------------------------- Validator ------------------------------- *)

\* a scan that also rejects an adjacent pair of nodes without colours
validate_countsUnassigned(graph, assignments) ==
  \A i \in DOMAIN graph.nodes : \A j \in DOMAIN graph.nodes :
    (i < j /\ graph.adjacency[i][j] = 1) =>
      ~(assignments[graph.nodes[i]] = assignments[graph.nodes[j]])

\* TheoremEngine.validateColoring: the scan over the pairs i < j
validate(graph, assignments) ==
  \A i \in DOMAIN graph.nodes : \A j \in DOMAIN graph.nodes :
    (i < j /\ graph.adjacency[i][j] = 1) =>
      ~(assignments[graph.nodes[i]] = assignments[graph.nodes[j]]
        /\ assignments[graph.nodes[i]] # Undef)

(* ------------- the algorithms applied to bounded inputs ---------------- *)

\* most nodes in a graph handed to an algorithm
MaxNodes == 4

\* largest maxColors option
MaxK == 4

\* a set of pairs as a sequence, in lexicographic order
RECURSIVE pairsToSeq(_)
pairsToSeq(ps) ==
  IF ps = {} THEN <<>>
  ELSE LET p == CHOOSE x \in ps :
                  \A y \in ps : x[1] < y[1] \/ (x[1] = y[1] /\ x[2] <= y[2])
       IN  <<p>> \o pairsToSeq(ps \ {p})

\* the graph object with nodes IdSeq[1..n] and an edge per pair of positions
GraphOf(n, ps) ==
  LET nodes == [i \in 0..(n - 1) |-> IdSeq[i + 1]]
      es == pairsToSeq(ps)
      g == [nodes |-> nodes,
            edges |-> [k \in 1..Len(es) |->
                         [source |-> nodes[es[k][1]], target |-> nodes[es[k][2]]]]]
  IN  [nodes |-> g.nodes, edges |-> g.edges, adjacency |-> buildAdjacencyMatrix(g)]

PairsOf(n) == {<<i, j>> : i \in 0..(n - 1), j \in 0..(n - 1)} \cap
              {p \in (0..(n - 1)) \X (0..(n - 1)) : p[1] < p[2]}

AllGraphs(maxN) == UNION {{GraphOf(n, ps) : ps \in SUBSET PairsOf(n)} : n \in 0..maxN}

NoConstraints == <<>>

Quiet ==
  /\ maxSteps = 0
  /\ stack = <<>>
  /\ index = -1
  /\ heap = EmptyHeap
  /\ currentGraph = Null
  /\ currentColoring = Null
  /\ held = 0
  /\ clock = 0
  /\ ret = Null
  /\ args = Null
  /\ pre = Null
  /\ pushed = <<>>
  /\ moves = <<>>

AlgInit ==
  /\ Quiet
  /\ lastOp = "input"
  /\ algIn \in [graph : AllGraphs(MaxNodes),
                options : [maxColors : {Undef} \cup 0..MaxK, constraints : {NoConstraints}]]
  /\ algOut = Null

Run(name, result) ==
  /\ lastOp = "input"
  /\ algOut' = result
  /\ lastOp' = name
  /\ UNCHANGED <<maxSteps, stack, index, heap, currentGraph, currentColoring, held,
                 clock, ret, args, pre, pushed, moves, algIn>>

RunGreedy == Run("greedy", GreedyCompute(algIn.graph, algIn.options))
RunWelshPowell == Run("welsh-powell", WelshPowellCompute(algIn.graph, algIn.options))
RunDSATUR == Run("dsatur", DSATURCompute(algIn.graph, algIn.options))
RunBacktracking == Run("backtracking", BacktrackingCompute(algIn.graph, algIn.options))

AlgNext == RunGreedy \/ RunWelshPowell \/ RunDSATUR \/ RunBacktracking

SpecAlg == AlgInit /\ [][AlgNext]_vars

\* the number of colours the caller allows: maxColors, 4 when it is not given
allowedColors(options) ==
  IF options.maxColors = Undef THEN DefaultMaxColors ELSE options.maxColors

\* some proper colouring of the graph uses only the colours 0..k-1
Colourable(graph, k) ==
  \E f \in [DOMAIN graph.nodes -> 0..(k - 1)] :
    \A i \in DOMAIN graph.nodes : \A j \in DOMAIN graph.nodes :
      graph.adjacency[i][j] = 1 => f[i] # f[j]

(* ------- the algorithms on larger, sparse graphs (paths, trees) -------- *)

\* nodes of the sparse graphs
SparseNodes == 6

\* most edges of a sparse graph
SparseEdges == 5

\* largest maxColors tried on them
SparseK == 2

SparseGraphs(n, m) ==
  {GraphOf(n, ps) : ps \in {q \in SUBSET PairsOf(n) : Cardinality(q) <= m}}

AlgSparseInit ==
  /\ Quiet
  /\ lastOp = "input"
  /\ algIn \in [graph : SparseGraphs(SparseNodes, SparseEdges),
                options : [maxColors : 1..SparseK, constraints : {NoConstraints}]]
  /\ algOut = Null

SpecAlgSparse == AlgSparseInit /\ [][AlgNext]_vars

(* ---------------- the algorithms under constraints --------------------- *)

\* most nodes of a graph handed to an algorithm together with constraints
MaxPinNodes == 2

\* most entries of a constraint list
MaxConstraints == 2

\* { nodeId, colorIndex }: the node is pinned to a colour
Pin(nodeId, colorIndex) ==
  [nodeId |-> nodeId, colorIndex |-> colorIndex, forbidden |-> {}]

\* { nodeId, forbidden }: colours the node must not get
Forbid(nodeId, forbidden) ==
  [nodeId |-> nodeId, colorIndex |-> Undef, forbidden |-> forbidden]

\* the constraints a caller passes: pins of both nodes, a second pin of the
\* first node, a pin of an identifier that is no node, and forbidden colours
CallerConstraints ==
  {Pin("a", 0), Pin("a", 1), Pin("b", 1), Pin(UnknownId, 0),
   Forbid("a", {0}), Forbid("b", {0, 1})}

ConstraintLists(m) == UNION {[1..k -> CallerConstraints] : k \in 0..m}

AlgConstrainedInit ==
  /\ Quiet
  /\ lastOp = "input"
  /\ algIn \in [graph : AllGraphs(MaxPinNodes),
                options : [maxColors : {Undef, 2},
                           constraints : ConstraintLists(MaxConstraints)]]
  /\ algOut = Null

SpecAlgConstrained == AlgConstrainedInit /\ [][AlgNext]_vars

(* --------------- the adjacency matrix built from edge lists ------------ *)

\* most nodes of a graph whose matrix is built
MaxAdjNodes == 2

\* most edges in its edge list
MaxAdjEdges == 2

\* what an edge names as source or target: a node of the graph or an
\* identifier that is none
EdgeEnds(n) == {IdSeq[i] : i \in 1..n} \cup {UnknownId}

\* edge lists, with edges from a node to itself, repeated edges and edges
\* that name an unknown identifier
EdgeLists(n, m) ==
  UNION {[1..k -> [source : EdgeEnds(n), target : EdgeEnds(n)]] : k \in 0..m}

AdjInit ==
  /\ Quiet
  /\ lastOp = "input"
  /\ algIn \in UNION {{[graph |-> [nodes |-> [i \in 0..(n - 1) |-> IdSeq[i + 1]],
                                   edges |-> es]] : es \in EdgeLists(n, MaxAdjEdges)} :
                       n \in 0..MaxAdjNodes}
  /\ algOut = Null

\* matrix = this._buildAdjacencyMatrix(graph)
BuildAdjacency ==
  /\ lastOp = "input"
  /\ algOut' = buildAdjacencyMatrix(algIn.graph)
  /\ lastOp' = "buildAdjacencyMatrix"
  /\ UNCHANGED <<maxSteps, stack, index, heap, currentGraph, currentColoring, held,
                 clock, ret, args, pre, pushed, moves, algIn>>

SpecAdj == AdjInit /\ [][BuildAdjacency]_vars

(* ------------------- properties of the algorithms ---------------------- *)

\* C7: for every graph that has a proper colouring with at most maxColors
\* colours (no constraints), the assignment each of Greedy, Welsh-Powell,
\* DSATUR and Backtracking returns has no two adjacent nodes of the same
\* colour: the Validator accepts it.
C7_ColourableGivesProper ==
  (algOut # Null /\ Colourable(algIn.graph, allowedColors(algIn.options))) =>
     validate(algIn.graph, algOut.assignments)

\* C8: for every graph that cannot be properly coloured with maxColors colours,
\* every algorithm reports failure as data: the returned assignment is flagged
\* invalid or its mapping is empty (stated here for maxColors >= 1).
C8_UncolourableReported ==
  (/\ algOut # Null
   /\ allowedColors(algIn.options) >= 1
   /\ ~Colourable(algIn.graph, allowedColors(algIn.options))) =>
     (algOut.valid = FALSE \/ algOut.assignments = EmptyAssignments)

(* ------------- TheoremEngine (src/unnamed/part_001) -------------------- *)

\* number of calls made on one engine
MaxCalls == 4

\* a function that returns nothing
Undefined == [undefined |-> TRUE]

\* `throw new Error(message)`
Thrown(message) == [thrown |-> message]

\* a boolean handed back to the caller
Bool(b) == [bool |-> b]

\* a ColorAssignment handed back to the caller, read through the heap
Returned(c, h) == [coloring |-> Deref(c, h)]

\* TheoremEngine._getDefaultPalette()
getDefaultPalette == [i \in 1..4 |-> Css(baseColors[i])]

\* nodes of the graphs a caller loads
EngineNodes == <<"a", "b">>

\* the graph objects a caller loads: nodes and edges, no adjacency matrix yet
LoadableGraphs ==
  {[nodes |-> g.nodes, edges |-> g.edges] :
     g \in {GraphOf(Len(EngineNodes), ps) : ps \in SUBSET PairsOf(Len(EngineNodes))}}

\* (nodeId, colorIndex) pairs a caller passes to assignColor: both nodes, two
\* colours, and an identifier that is no node of the graph
AssignInputs == {<<"a", 0>>, <<"a", 1>>, <<"b", 0>>, <<UnknownId, 0>>}

\* TheoremEngine._preprocessGraph(graph)
preprocessGraph(graph) ==
  IF "adjacency" \in DOMAIN graph
    THEN graph
    ELSE [nodes |-> graph.nodes, edges |-> graph.edges,
          adjacency |-> buildAdjacencyMatrix(graph)]

\* a selection whose default is Welsh-Powell
selectAndCompute_defaultWelshPowell(graph, options) ==
  CASE options.algorithm = "dsatur"       -> DSATURCompute(graph, options)
    [] options.algorithm = "greedy"       -> GreedyCompute(graph, options)
    [] options.algorithm = "backtracking" -> BacktrackingCompute(graph, options)
    [] OTHER                              -> WelshPowellCompute(graph, options)

\* TheoremEngine._selectAlgorithm(algorithmName).compute(graph, options)
selectAndCompute(graph, options) ==
  CASE options.algorithm = "dsatur"       -> DSATURCompute(graph, options)
    [] options.algorithm = "welsh-powell" -> WelshPowellCompute(graph, options)
    [] options.algorithm = "backtracking" -> BacktrackingCompute(graph, options)
    [] OTHER                              -> GreedyCompute(graph, options)

\* TheoremEngine.validateColoring(coloring): toValidate is the argument or,
\* without one, the current colouring; both are given here read through the heap
validateColoring(graph, toValidate) ==
  IF toValidate = Null \/ graph = Null THEN FALSE
  ELSE validate(graph, toValidate.asg)

\* StateManager.clear(): the history starts over
clear == [stack |-> <<>>, index |-> -1]

\* StateManager.pushState(state), undo() and redo(): the bounded history of
\* src/history.js under the engine's names
pushState(stk, idx, cap, h, state) == push(stk, idx, cap, h, state)
stateManagerUndo(stk, idx, h) == undo(stk, idx, h)
stateManagerRedo(stk, idx, h) == redo(stk, idx, h)

\* the `action` text of a snapshot
Label(text, algorithm, nodeId, colorIndex) ==
  [text |-> text, algorithm |-> algorithm, nodeId |-> nodeId, colorIndex |-> colorIndex]

\* the snapshot object { coloring: { ...coloring }, timestamp, action }: the
\* spread copies the fields, so it shares the assignments object
snapshotOf(coloring, timestamp, action) ==
  [asg |-> coloring.asg, palette |-> coloring.palette, chromatic |-> coloring.chromatic,
   valid |-> coloring.valid, metadata |-> coloring.metadata,
   timestamp |-> timestamp, action |-> action]

\* previousState.coloring
coloringOf(snapshot) ==
  [asg |-> snapshot.asg, palette |-> snapshot.palette, chromatic |-> snapshot.chromatic,
   valid |-> snapshot.valid, metadata |-> snapshot.metadata]

\* { assignments: {}, palette, chromatic: 0, valid: false } around the object at id
blankColoring(id, palette) ==
  [asg |-> id, palette |-> palette, chromatic |-> 0, valid |-> FALSE, metadata |-> NoMetadata]

\* new TheoremEngine({ maxUndoSteps }): the smallest and the largest capacity
EngineInit ==
  /\ maxSteps \in {1, MaxCap}
  /\ stack = <<>>
  /\ index = -1
  /\ heap = EmptyHeap
  /\ currentGraph = Null
  /\ currentColoring = Null
  /\ held = 0
  /\ clock = 0
  /\ lastOp = "new"
  /\ ret = Undefined
  /\ args = Null
  /\ pre = Null
  /\ pushed = <<>>
  /\ moves = <<>>
  /\ algIn = Null
  /\ algOut = Null

\* bookkeeping shared by every call on the engine
Called(name, a) ==
  /\ clock < MaxCalls
  /\ clock' = clock + 1
  /\ lastOp' = name
  /\ args' = a
  /\ pre' = Observe
  /\ UNCHANGED <<maxSteps, pushed, moves, algVars>>

\* loadGraph that leaves the history as it is
LoadGraph_keepsHistory(graph) ==
  /\ Called("loadGraph", graph)
  /\ currentGraph' = preprocessGraph(graph)
  /\ LET id == NewId(Collect(heap, Roots(stack, Null, held)))
     IN  /\ currentColoring' = blankColoring(id, <<>>)
         /\ heap' = [Collect(heap, Roots(stack, Null, held)) EXCEPT ![id] = EmptyAssignments]
  /\ ret' = Undefined
  /\ UNCHANGED <<stack, index, held>>

\* engine.loadGraph(graph)
LoadGraph(graph) ==
  /\ Called("loadGraph", graph)
  /\ currentGraph' = preprocessGraph(graph)
  /\ stack' = clear.stack
  /\ index' = clear.index
  /\ LET id == NewId(Collect(heap, Roots(<<>>, Null, held)))
     IN  /\ currentColoring' = blankColoring(id, <<>>)
         /\ heap' = [Collect(heap, Roots(<<>>, Null, held)) EXCEPT ![id] = EmptyAssignments]
  /\ ret' = Undefined
  /\ UNCHANGED held

\* algorithm names a caller passes: a known one, an unknown one and none
AlgorithmNames == {"greedy", "annealing", ""}

\* options a caller passes to computeColoring
CallerOptions ==
  [algorithm : AlgorithmNames, maxColors : {Undef}, constraints : {NoConstraints}]

\* computeColoring that answers null instead of throwing when no graph is loaded
ComputeColoring_silent(options) ==
  /\ Called("computeColoring", options)
  /\ IF currentGraph = Null
       THEN /\ ret' = Null
            /\ UNCHANGED <<stack, index, heap, currentGraph, currentColoring, held>>
       ELSE LET result == selectAndCompute(currentGraph, options)
                id == NewId(heap)
                h1 == [heap EXCEPT ![id] = result.assignments]
                coloring == [asg |-> id, palette |-> result.palette,
                             chromatic |-> result.chromatic, valid |-> result.valid,
                             metadata |-> result.metadata]
                r == pushState(stack, index, maxSteps, h1,
                       snapshotOf(coloring, clock,
                         Label("Auto-colored using",
                               IF options.algorithm = "" THEN "default" ELSE options.algorithm,
                               "", Undef)))
            IN  /\ currentColoring' = coloring
                /\ stack' = r.stack
                /\ index' = r.index
                /\ held' = coloring.asg
                /\ heap' = Collect(r.heap, Roots(r.stack, coloring, coloring.asg))
                /\ ret' = Returned(coloring, r.heap)
                /\ UNCHANGED currentGraph

\* engine.computeColoring(options)
ComputeColoring(options) ==
  /\ Called("computeColoring", options)
  /\ IF currentGraph = Null
       THEN /\ ret' = Thrown("No graph loaded")
            /\ UNCHANGED <<stack, index, heap, currentGraph, currentColoring, held>>
       ELSE LET result == selectAndCompute(currentGraph, options)
                id == NewId(heap)
                h1 == [heap EXCEPT ![id] = result.assignments]
                coloring == [asg |-> id, palette |-> result.palette,
                             chromatic |-> result.chromatic, valid |-> result.valid,
                             metadata |-> result.metadata]
                r == pushState(stack, index, maxSteps, h1,
                       snapshotOf(coloring, clock,
                         Label("Auto-colored using",
                               IF options.algorithm = "" THEN "default" ELSE options.algorithm,
                               "", Undef)))
            IN  /\ currentColoring' = coloring
                /\ stack' = r.stack
                /\ index' = r.index
                /\ held' = coloring.asg
                /\ heap' = Collect(r.heap, Roots(r.stack, coloring, coloring.asg))
                /\ ret' = Returned(coloring, r.heap)
                /\ UNCHANGED currentGraph

\* an edit that recounts the colours but keeps the old validity flag
editedColoring_staleFlag(graph, coloring, h, nodeId, colorIndex) ==
  LET h1 == [h EXCEPT ![coloring.asg][nodeId] = colorIndex]
      usedColors == Values(h1[coloring.asg])
  IN  [coloring |-> [coloring EXCEPT !.chromatic = Cardinality(usedColors)], heap |-> h1]

\* the in-place edit of assignColor: assignments[nodeId] = colorIndex, then the
\* chromatic count and the validity flag are recomputed on the same object
editedColoring(graph, coloring, h, nodeId, colorIndex) ==
  LET h1 == [h EXCEPT ![coloring.asg][nodeId] = colorIndex]
      usedColors == Values(h1[coloring.asg])
      counted == [coloring EXCEPT !.chromatic = Cardinality(usedColors)]
  IN  [coloring |-> [counted EXCEPT !.valid = validateColoring(graph, Deref(counted, h1))],
       heap |-> h1]

\* engine.assignColor(nodeId, colorIndex)
AssignColor(nodeId, colorIndex) ==
  /\ Called("assignColor", <<nodeId, colorIndex>>)
  /\ LET id == NewId(heap)
         h0 == IF currentColoring = Null
                 THEN [heap EXCEPT ![id] = EmptyAssignments] ELSE heap
         c0 == IF currentColoring = Null
                 THEN blankColoring(id, getDefaultPalette) ELSE currentColoring
         e  == editedColoring(currentGraph, c0, h0, nodeId, colorIndex)
         r  == pushState(stack, index, maxSteps, e.heap,
                 snapshotOf(e.coloring, clock, Label("Colored node", "", nodeId, colorIndex)))
     IN  /\ currentColoring' = e.coloring
         /\ stack' = r.stack
         /\ index' = r.index
         /\ heap' = Collect(r.heap, Roots(r.stack, e.coloring, held))
  /\ ret' = Undefined
  /\ UNCHANGED <<currentGraph, held>>

\* `if (previousState) { this.currentColoring = previousState.coloring; ... }`
restored(state, coloring) == IF state # Null THEN coloringOf(state) ELSE coloring

\* engine.undo()
Undo ==
  /\ Called("undo", Null)
  /\ LET r == stateManagerUndo(stack, index, heap)
         c == restored(r.ret, currentColoring)
         hd == IF r.ret # Null THEN c.asg ELSE held
     IN  /\ index' = r.index
         /\ currentColoring' = c
         /\ held' = hd
         /\ heap' = Collect(r.heap, Roots(stack, c, hd))
         /\ ret' = IF r.ret # Null THEN Returned(c, r.heap) ELSE Null
  /\ UNCHANGED <<stack, currentGraph>>

\* engine.redo()
Redo ==
  /\ Called("redo", Null)
  /\ LET r == stateManagerRedo(stack, index, heap)
         c == restored(r.ret, currentColoring)
         hd == IF r.ret # Null THEN c.asg ELSE held
     IN  /\ index' = r.index
         /\ currentColoring' = c
         /\ held' = hd
         /\ heap' = Collect(r.heap, Roots(stack, c, hd))
         /\ ret' = IF r.ret # Null THEN Returned(c, r.heap) ELSE Null
  /\ UNCHANGED <<stack, currentGraph>>

\* reset that pushes its baseline on top of the history it found
Reset_keepsHistory ==
  /\ Called("reset", Null)
  /\ LET id == NewId(heap)
         c  == blankColoring(id, getDefaultPalette)
         r  == pushState(stack, index, maxSteps,
                         [heap EXCEPT ![id] = EmptyAssignments],
                         snapshotOf(c, clock, Label("Reset to uncolored state", "", "", Undef)))
     IN  /\ currentColoring' = c
         /\ stack' = r.stack
         /\ index' = r.index
         /\ heap' = Collect(r.heap, Roots(r.stack, c, held))
  /\ ret' = Undefined
  /\ UNCHANGED <<currentGraph, held>>

\* engine.reset()
Reset ==
  /\ Called("reset", Null)
  /\ LET h0 == Collect(heap, Roots(<<>>, Null, held))
         id == NewId(h0)
         c  == blankColoring(id, getDefaultPalette)
         r  == pushState(clear.stack, clear.index, maxSteps,
                         [h0 EXCEPT ![id] = EmptyAssignments],
                         snapshotOf(c, clock, Label("Reset to uncolored state", "", "", Undef)))
     IN  /\ currentColoring' = c
         /\ stack' = r.stack
         /\ index' = r.index
         /\ heap' = Collect(r.heap, Roots(r.stack, c, held))
  /\ ret' = Undefined
  /\ UNCHANGED <<currentGraph, held>>

\* colourings a caller hands to validateColoring: both nodes with the same
\* colour, with different colours, one node without a colour, both without
CallerColorings ==
  {[asg |-> [id \in AllIds |-> IF id \in DOMAIN f THEN f[id] ELSE Undef]] :
     f \in {[a |-> 0, b |-> 0], [a |-> 0, b |-> 1],
            [a |-> 0, b |-> Undef], [a |-> Undef, b |-> Undef]}}

\* engine.validateColoring(coloring): arg is Null when called without one
ValidateColoring(arg) ==
  /\ Called("validateColoring", arg)
  /\ ret' = Bool(validateColoring(currentGraph,
                   IF arg = Null THEN Deref(currentColoring, heap) ELSE arg))
  /\ UNCHANGED <<stack, index, heap, currentGraph, currentColoring, held>>

\* what a caller writes into a ColorAssignment it holds
MutateInputs == {<<"a", 0>>, <<"a", 1>>}

\* the caller writes into the assignments of the ColorAssignment it was last
\* handed by computeColoring, undo or redo
CallerMutates(nodeId, colorIndex) ==
  /\ Called("callerMutates", <<nodeId, colorIndex>>)
  /\ held # 0
  /\ heap' = [heap EXCEPT ![held][nodeId] = colorIndex]
  /\ ret' = Undefined
  /\ UNCHANGED <<stack, index, currentGraph, currentColoring, held>>

EngineNext ==
  \/ \E g \in LoadableGraphs : LoadGraph(g)
  \/ \E o \in CallerOptions : ComputeColoring(o)
  \/ \E p \in AssignInputs : AssignColor(p[1], p[2])
  \/ Undo
  \/ Redo
  \/ Reset
  \/ \E a \in {Null} \cup CallerColorings : ValidateColoring(a)
  \/ \E p \in MutateInputs : CallerMutates(p[1], p[2])

Spec == EngineInit /\ [][EngineNext]_vars

(* ----------------------- properties of the engine ---------------------- *)

\* the engine's state as a caller observes it, without the operation's name
Effect(o) == [stack |-> o.stack, index |-> o.index, coloring |-> o.coloring, graph |-> o.graph]

\* C2: assignColor followed immediately by undo leaves the engine's current
\* ColorAssignment equal to the one it had before the assignColor call,
\* whenever a graph was loaded at the time of the assignColor call.
C2_AssignThenUndoRestores ==
  [][(lastOp = "assignColor" /\ pre.graph # Null /\ lastOp' = "undo") =>
       Deref(currentColoring', heap') = pre.coloring]_vars

\* C5: undo with the cursor at position 0 or on an empty stack, and redo with
\* the cursor at the tail, return null, raise nothing and leave the stack, the
\* cursor and the engine's current ColorAssignment as they were.
C5_NothingToMoveTo ==
  ((lastOp = "undo" /\ pre.index <= 0) \/
   (lastOp = "redo" /\ pre.index >= Len(pre.stack) - 1)) =>
     /\ ret = Null
     /\ Effect(Observe) = Effect(pre)

C5_Witness ==
  /\ lastOp = "undo"
  /\ pre.index = 0
  /\ Len(stack) = 2
  /\ ret = Null
  /\ Values(pre.coloring.asg) # {}

\* C6: no snapshot in the history stack shares its assignments object with
\* another snapshot, with the live ColorAssignment or with a ColorAssignment a
\* caller holds; a write by the caller into the object it holds leaves every
\* stored snapshot as it was, and so does assignColor for the snapshots that
\* stay in the stack.
C6_SnapshotsNotShared ==
  /\ \A i \in 1..Len(stack) :
       /\ stack[i].asg # held
       /\ currentColoring # Null => stack[i].asg # currentColoring.asg
       /\ \A j \in 1..Len(stack) : i # j => stack[i].asg # stack[j].asg
  /\ lastOp = "callerMutates" => StackValues(stack, heap) = pre.stack
  /\ lastOp = "assignColor" =>
       LET kept == SubSeq(pre.stack, 1, pre.index + 1)
           shift == Len(kept) + 1 - Len(stack)
       IN  \A i \in 1..(Len(stack) - 1) : Deref(stack[i], heap) = kept[i + shift]

C6_Witness ==
  /\ lastOp = "callerMutates"
  /\ pre.lastOp = "undo"
  /\ Len(stack) = 2
  /\ Deref(currentColoring, heap) # pre.coloring

\* C9: with a graph loaded, validateColoring returns false exactly when two
\* distinct adjacent positions hold nodes that both have a colour and the two
\* colours are equal; a pair with an unassigned endpoint never makes it false;
\* the call leaves the graph, the current assignment and the history alone.
C9_ValidatorFindsConflicts ==
  (lastOp = "validateColoring" /\ pre.graph # Null) =>
    LET asg == IF args = Null THEN pre.coloring.asg ELSE args.asg
        g == pre.graph
        conflict ==
          \E i \in DOMAIN g.nodes : \E j \in DOMAIN g.nodes :
            /\ i # j
            /\ g.adjacency[i][j] = 1
            /\ asg[g.nodes[i]] # Undef
            /\ asg[g.nodes[j]] # Undef
            /\ asg[g.nodes[i]] = asg[g.nodes[j]]
    IN  /\ ret = Bool(~conflict)
        /\ Effect(Observe) = Effect(pre)

C9_Witness ==
  /\ lastOp = "validateColoring"
  /\ pre.graph # Null
  /\ args # Null
  /\ args.asg["a"] = 0
  /\ args.asg["b"] = 0
  /\ ret = Bool(FALSE)
  /\ Values(pre.coloring.asg) # {}

\* C10: right after loadGraph the history is empty and the current assignment
\* is the empty one, flagged invalid; while the history is empty, undo and
\* redo return null and change nothing, so no run of undo calls brings back a
\* colouring made before the load.
C10_LoadStartsOver ==
  [][/\ lastOp' = "loadGraph" =>
          /\ stack' = <<>>
          /\ index' = -1
          /\ Deref(currentColoring', heap').asg = EmptyAssignments
          /\ currentColoring'.valid = FALSE
     /\ (lastOp \in {"loadGraph", "undo", "redo"} /\ stack = <<>>
           /\ lastOp' \in {"undo", "redo"}) =>
          /\ ret' = Null
          /\ stack' = <<>>
          /\ Deref(currentColoring', heap') = Deref(currentColoring, heap)]_vars

C10_Witness ==
  /\ lastOp = "undo"
  /\ pre.lastOp = "loadGraph"
  /\ ret = Null
  /\ stack = <<>>
  /\ Deref(currentColoring, heap).asg = EmptyAssignments
  /\ clock >= 3


\* C11: right after reset the current assignment is the empty one, flagged
\* invalid, and the history holds exactly one snapshot, the baseline pushed by
\* this reset, with the cursor on it; undo and redo issued right after reset
\* return null; no later step brings an older snapshot back into the stack,
\* and undo only ever returns a snapshot that is in the stack, so it never
\* reaches a colouring from before the reset.
C11_ResetLeavesBaseline ==
  [][/\ lastOp' = "reset" =>
          /\ Len(stack') = 1
          /\ index' = 0
          /\ stack'[1].timestamp = clock
          /\ coloringOf(Deref(stack'[1], heap')) = Deref(currentColoring', heap')
          /\ Deref(currentColoring', heap').asg = EmptyAssignments
          /\ currentColoring'.valid = FALSE
     /\ (lastOp = "reset" /\ lastOp' \in {"undo", "redo"}) =>
          /\ ret' = Null
          /\ Deref(currentColoring', heap') = Deref(currentColoring, heap)
     /\ \A i \in 1..Len(stack') :
          \/ stack'[i].timestamp = clock
          \/ \E j \in 1..Len(stack) : Deref(stack'[i], heap') = Deref(stack[j], heap)
     /\ (lastOp' = "undo" /\ ret' # Null) =>
          \E j \in 1..Len(stack) : ret'.coloring = coloringOf(Deref(stack[j], heap))]_vars

C11_Witness ==
  /\ lastOp = "reset"
  /\ Len(pre.stack) = 2
  /\ Values(pre.coloring.asg) # {}
  /\ Len(stack) = 1
  /\ index = 0


\* C12: computeColoring on an engine without a graph throws 'No graph loaded'
\* and leaves the current assignment, the stack and the cursor as they were.
C12_NoGraphIsAnError ==
  (lastOp = "computeColoring" /\ pre.graph = Null) =>
     /\ ret = Thrown("No graph loaded")
     /\ Effect(Observe) = Effect(pre)

C12_Witness ==
  /\ lastOp = "computeColoring"
  /\ pre.graph = Null
  /\ ret = Thrown("No graph loaded")
  /\ Len(stack) = 2
  /\ Values(Deref(currentColoring, heap).asg) # {}


\* the names TheoremEngine._selectAlgorithm knows
KnownAlgorithms == {"greedy", "dsatur", "welsh-powell", "backtracking"}

\* a ColorAssignment as an algorithm returns it, from one read through the heap
asResult(c) ==
  [assignments |-> c.asg, palette |-> c.palette, chromatic |-> c.chromatic,
   valid |-> c.valid, metadata |-> c.metadata]

\* C13: with a graph loaded, computeColoring with an algorithm name that is
\* none of greedy, dsatur, welsh-powell, backtracking (or with no name) returns
\* what Greedy returns on the same graph and options; whatever the name, the
\* returned assignment is the current one afterwards and one snapshot of it
\* sits at the tail of the history, after the entries kept up to the cursor.
C13_UnknownNameIsGreedy ==
  (lastOp = "computeColoring" /\ pre.graph # Null) =>
    LET kept == SubSeq(pre.stack, 1, pre.index + 1)
        shift == Len(kept) + 1 - Len(stack)
    IN  /\ args.algorithm \notin KnownAlgorithms =>
             asResult(ret.coloring) = GreedyCompute(pre.graph, args)
        /\ Deref(currentColoring, heap) = ret.coloring
        /\ Len(stack) >= 1
        /\ index = Len(stack) - 1
        /\ coloringOf(Deref(stack[Len(stack)], heap)) = ret.coloring
        /\ shift \in {0, 1}
        /\ \A i \in 1..(Len(stack) - 1) : Deref(stack[i], heap) = kept[i + shift]

C13_Witness ==
  /\ lastOp = "computeColoring"
  /\ pre.graph # Null
  /\ Len(pre.graph.edges) = 1
  /\ args.algorithm = "annealing"
  /\ ret.coloring.valid
  /\ Len(stack) = 2


\* no two distinct adjacent positions of the graph hold nodes that both have
\* a colour in asg and have the same one
Proper(graph, asg) ==
  ~\E i \in DOMAIN graph.nodes : \E j \in DOMAIN graph.nodes :
     /\ i # j
     /\ graph.adjacency[i][j] = 1
     /\ asg[graph.nodes[i]] # Undef
     /\ asg[graph.nodes[i]] = asg[graph.nodes[j]]

\* C14: after assignColor(nodeId, colorIndex) on an engine with a graph
\* loaded, the current assignment maps nodeId to colorIndex and is otherwise
\* as before, its chromatic count is the number of distinct colour indices in
\* the mapping, its validity flag is the Validator's verdict on the whole
\* mapping, and one snapshot of it was pushed at the tail of the history; for
\* a nodeId that is no node of the graph the verdict is the one the mapping
\* gets without that entry.
C14_AssignColorPostconditions ==
  (lastOp = "assignColor" /\ pre.graph # Null) =>
    LET c == Deref(currentColoring, heap)
        nodeId == args[1]
        kept == SubSeq(pre.stack, 1, pre.index + 1)
        shift == Len(kept) + 1 - Len(stack)
        isNode == \E i \in DOMAIN pre.graph.nodes : pre.graph.nodes[i] = nodeId
    IN  /\ c.asg[nodeId] = args[2]
        /\ \A id \in AllIds \ {nodeId} : c.asg[id] = pre.coloring.asg[id]
        /\ c.chromatic = Cardinality({c.asg[id] : id \in {x \in AllIds : c.asg[x] # Undef}})
        /\ c.valid = Proper(pre.graph, c.asg)
        /\ ~isNode => c.valid = Proper(pre.graph, [c.asg EXCEPT ![nodeId] = Undef])
        /\ Len(stack) >= 1
        /\ index = Len(stack) - 1
        /\ coloringOf(Deref(stack[Len(stack)], heap)) = c
        /\ shift \in {0, 1}
        /\ \A i \in 1..(Len(stack) - 1) : Deref(stack[i], heap) = kept[i + shift]

C14_Witness ==
  /\ lastOp = "assignColor"
  /\ pre.graph # Null
  /\ args[1] = UnknownId
  /\ Deref(currentColoring, heap).asg["a"] = 0
  /\ Deref(currentColoring, heap).asg["b"] = 0
  /\ ~Deref(currentColoring, heap).valid
  /\ Deref(currentColoring, heap).chromatic = 1


\* C15: the chromatic count of every assignment an algorithm returns, with or
\* without constraints, is the number of distinct colour indices that occur
\* in its mapping.
C15_ChromaticCountsColours ==
  algOut # Null => algOut.chromatic = Cardinality(Values(algOut.assignments))


\* C16: the palette of every ColorAssignment an algorithm returns, and of the
\* engine's current ColorAssignment after any sequence of loadGraph,
\* computeColoring, assignColor, undo, redo and reset, has at least as many
\* entries as the chromatic count.
C16_PaletteCoversChromatic ==
  /\ algOut # Null => Len(algOut.palette) >= algOut.chromatic
  /\ currentColoring # Null => Len(currentColoring.palette) >= currentColoring.chromatic


\* C17: the matrix built from any node list and edge list, edges from a node
\* to itself included, is square with one row per node, symmetric, and has
\* no cell set on its diagonal.
C17_MatrixSquareSymmetricLoopFree ==
  lastOp = "buildAdjacencyMatrix" =>
    LET n == NumNodes(algIn.graph)
    IN  /\ DOMAIN algOut = 0..(n - 1)
        /\ \A i \in 0..(n - 1) : DOMAIN algOut[i] = 0..(n - 1)
        /\ \A i \in 0..(n - 1) : \A j \in 0..(n - 1) : algOut[i][j] = algOut[j][i]
        /\ \A i \in 0..(n - 1) : algOut[i][i] = 0


(* ------------- graphs loaded, changed by the caller, reloaded ---------- *)

Edge(source, target) == [source |-> source, target |-> target]

\* edge lists a caller gives a graph on the nodes a and b: none, one edge, the
\* same edge twice, an edge to an identifier that is no node
ReloadEdgeLists ==
  {<<>>, <<Edge("a", "b")>>, <<Edge("a", "b"), Edge("b", "a")>>, <<Edge("a", UnknownId)>>}

\* fresh graph objects: nodes and edges, no adjacency matrix yet
ReloadGraphs ==
  {[nodes |-> [i \in 0..(Len(EngineNodes) - 1) |-> EngineNodes[i + 1]], edges |-> es] :
     es \in ReloadEdgeLists}

\* the caller replaces the edges of the graph object it loaded; the engine's
\* currentGraph is that same object
CallerChangesEdges(edges) ==
  /\ Called("callerChangesEdges", edges)
  /\ currentGraph # Null
  /\ currentGraph' = [currentGraph EXCEPT !.edges = edges]
  /\ ret' = Undefined
  /\ UNCHANGED <<stack, index, heap, currentColoring, held>>

\* engine.loadGraph(graph) with the graph object that is already loaded
LoadSameGraph ==
  /\ currentGraph # Null
  /\ LoadGraph(currentGraph)

LoadNext ==
  \/ \E g \in ReloadGraphs : LoadGraph(g)
  \/ \E es \in ReloadEdgeLists : CallerChangesEdges(es)
  \/ LoadSameGraph

SpecLoad == EngineInit /\ [][LoadNext]_vars

\* C18: after loadGraph(graph) the engine's adjacency has cell (i, j) set
\* exactly when some edge of the loaded graph joins the nodes at positions i
\* and j; edges that name an unknown identifier set nothing, repeated edges
\* change nothing, and this holds on every load, also of a graph object that
\* was loaded before and whose edges the caller has changed since.
C18_MatrixFollowsEdges ==
  lastOp = "loadGraph" =>
    \A i \in DOMAIN currentGraph.nodes : \A j \in DOMAIN currentGraph.nodes :
      (currentGraph.adjacency[i][j] = 1) <=>
        \E k \in 1..Len(currentGraph.edges) :
          LET e == currentGraph.edges[k]
          IN  \/ (e.source = currentGraph.nodes[i] /\ e.target = currentGraph.nodes[j])
              \/ (e.source = currentGraph.nodes[j] /\ e.target = currentGraph.nodes[i])


\* the three heuristics that read options.constraints
Heuristics == {"greedy", "welsh-powell", "dsatur"}

\* the positions of the constraints that pin node `id` to a colour index
pinsOf(constraints, id) ==
  {k \in 1..Len(constraints) :
     constraints[k].nodeId = id /\ constraints[k].colorIndex # Undef}

\* the nodes of the input graph
nodeIds(graph) == {graph.nodes[i] : i \in DOMAIN graph.nodes}

\* C19 as stated: for Greedy, Welsh-Powell and DSATUR with a constraint list,
\* every node that a constraint pins to a fixed colour index has exactly that
\* colour in any non-empty returned mapping.
C19_Original ==
  (lastOp \in Heuristics /\ algOut.assignments # EmptyAssignments) =>
    \A k \in 1..Len(algIn.options.constraints) :
      LET c == algIn.options.constraints[k]
      IN  (c.nodeId \in nodeIds(algIn.graph) /\ c.colorIndex # Undef) =>
            algOut.assignments[c.nodeId] = c.colorIndex

\* C19: for Greedy, Welsh-Powell and DSATUR with a constraint list, every
\* node of the graph that constraints pin to a fixed colour index has, in any
\* non-empty returned mapping, exactly the colour index of the last constraint
\* that pins it: the heuristic never recolours a pinned node.
C19_PinnedKeepLastPin ==
  (lastOp \in Heuristics /\ algOut.assignments # EmptyAssignments) =>
    \A id \in nodeIds(algIn.graph) :
      LET ks == pinsOf(algIn.options.constraints, id)
      IN  ks # {} =>
            algOut.assignments[id] =
              algIn.options.constraints[CHOOSE k \in ks : \A j \in ks : j <= k].colorIndex

\* Greedy ran on the graph a-b with a pinned first to 0 and then to 1: a has
\* colour 1 and the heuristic gave b the colour 0
C19_Witness ==
  /\ lastOp = "greedy"
  /\ algIn.options.constraints = <<Pin("a", 0), Pin("a", 1)>>
  /\ nodeIds(algIn.graph) = {"a", "b"}
  /\ algIn.graph.adjacency[0][1] = 1
  /\ algOut.assignments["a"] = 1
  /\ algOut.assignments["b"] = 0


\* C20: when a constraint lists forbidden colour indices for a node, no
\* algorithm assigns that node a colour from its forbidden set.
C20_ForbiddenColoursAvoided ==
  lastOp \in Heuristics =>
    \A k \in 1..Len(algIn.options.constraints) :
      LET c == algIn.options.constraints[k]
      IN  c.nodeId \in nodeIds(algIn.graph) =>
            algOut.assignments[c.nodeId] \notin c.forbidden


(* ------------------ getChromaticNumber on the engine ------------------- *)

\* a number handed back to the caller
Number(n) == [number |-> n]

\* the loop `for (let k = 1; k <= 4; k++)` from k on, and the `return 4` after it
RECURSIVE firstValidK(_, _)
firstValidK(graph, k) ==
  IF k > 4 THEN 4
  ELSE IF BacktrackingCompute(graph, [maxColors |-> k, constraints |-> NoConstraints]).valid
         THEN k
         ELSE firstValidK(graph, k + 1)

\* a loop that starts at two colours
getChromaticNumber_startsAtTwo(graph) ==
  IF graph = Null THEN 0 ELSE firstValidK(graph, 2)

\* TheoremEngine.getChromaticNumber()
getChromaticNumber(graph) ==
  IF graph = Null THEN 0 ELSE firstValidK(graph, 1)

\* engine.getChromaticNumber()
GetChromaticNumber ==
  /\ Called("getChromaticNumber", Null)
  /\ ret' = Number(getChromaticNumber(currentGraph))
  /\ UNCHANGED <<stack, index, heap, currentGraph, currentColoring, held>>

\* the graphs loaded before the chromatic number is asked for: two nodes
\* without and with an edge, and the triangle
ChromaticGraphs ==
  LoadableGraphs \cup
    {[nodes |-> g.nodes, edges |-> g.edges] : g \in {GraphOf(3, PairsOf(3))}}

\* the nodes coloured by hand in between
ChromaticAssignInputs == {<<"a", 0>>, <<"b", 0>>}

ChromaticNext ==
  \/ \E g \in ChromaticGraphs : LoadGraph(g)
  \/ \E p \in ChromaticAssignInputs : AssignColor(p[1], p[2])
  \/ GetChromaticNumber

SpecChromatic == EngineInit /\ [][ChromaticNext]_vars

AutoNodes == 6

\* most edges of such a graph
AutoEdges == 10

\* Wagner's criterion on at most six nodes: the graph has no K5 on five of its
\* nodes, no K5 after the contraction of one edge and no K3,3
Planar(adjacency) ==
  LET V == DOMAIN adjacency
      adj(u, v) == u # v /\ adjacency[u][v] # 0
      clique(S) == \A u \in S : \A v \in S : u # v => adj(u, v)
  IN  /\ ~\E S \in SUBSET V : Cardinality(S) = 5 /\ clique(S)
      /\ ~\E u \in V : \E v \in V :
            /\ adj(u, v)
            /\ Cardinality(V \ {u, v}) = 4
            /\ clique(V \ {u, v})
            /\ \A r \in V \ {u, v} : adj(r, u) \/ adj(r, v)
      /\ ~\E A \in SUBSET V :
            /\ Cardinality(A) = 3
            /\ Cardinality(V \ A) = 3
            /\ \A u \in A : \A v \in V \ A : adj(u, v)

\* the planar graphs on n nodes with at most m edges
PlanarGraphs(n, m) ==
  {g \in {GraphOf(n, ps) : ps \in {q \in SUBSET PairsOf(n) : Cardinality(q) <= m}} :
     Planar(g.adjacency)}

\* the colour at position idx of an array of colours, `undefined` past its end
colorAt(colors, idx) == IF idx + 1 \in DOMAIN colors THEN colors[idx + 1] ELSE "undefined"

\* FourColorApp.greedyColoring(): `while (usedColors.has(color)) color++`
RECURSIVE appGreedy(_, _, _)
appGreedy(adjacency, i, colors) ==
  IF i >= Cardinality(DOMAIN adjacency) THEN colors
  ELSE LET usedColors == {colors[j] : j \in {w \in DOMAIN adjacency :
                                               adjacency[i][w] # 0 /\ colors[w] # Uncolored}}
           color == CHOOSE c \in 0..Cardinality(usedColors) :
                      c \notin usedColors /\ \A d \in 0..(c - 1) : d \in usedColors
       IN  appGreedy(adjacency, i + 1, [colors EXCEPT ![i] = color])

greedyColoring(adjacency) ==
  appGreedy(adjacency, 0, [i \in DOMAIN adjacency |-> Uncolored])

\* FourColorApp.autoColorGraph(): node.color = colors[nodeColors[i]]
appAutoColorGraph(graph) ==
  LET nodeColors == greedyColoring(graph.adjacency)
  IN  [i \in DOMAIN graph.nodes |-> colorAt(baseColors, nodeColors[i])]

\* src/palette.js: a palette of four colours and the one of five
palettes ==
  {<<"#1b9e77", "#d95f02", "#7570b3", "#e7298a">>,
   <<"#66c2a5", "#fc8d62", "#8da0cb", "#e78ac3", "#a6d854">>}

\* autoColorGraph() of src/history.js with graphCanvas.applyColorAssignment:
\* n.color = palette[assignment[i] % palette.length]
autoColorGraph(graph, palette) ==
  LET assignment == colorGraphGreedyBacktrack(graph.adjacency, Len(palette))
  IN  [i \in DOMAIN graph.nodes |-> colorAt(palette, assignment[i] % Len(palette))]

AutoInit ==
  /\ Quiet
  /\ lastOp = "input"
  /\ algIn \in [graph : PlanarGraphs(AutoNodes, AutoEdges), palette : palettes]
  /\ algOut = Null

\* the auto-colour button of the FourColorApp page
AppAutoColor ==
  Run("FourColorApp.autoColorGraph", appAutoColorGraph(algIn.graph))

\* the auto-colour button of the page of src/history.js
AutoColor == Run("autoColorGraph", autoColorGraph(algIn.graph, algIn.palette))

AutoNext == AppAutoColor \/ AutoColor

SpecAuto == AutoInit /\ [][AutoNext]_vars

\* C22: for every planar graph, after the auto-colour action every node has
\* one of the palette colours and no two adjacent nodes have the same colour.
C22_AutoColourIsProper ==
  lastOp \in {"FourColorApp.autoColorGraph", "autoColorGraph"} =>
    LET palette == IF lastOp = "autoColorGraph" THEN algIn.palette ELSE baseColors
        V == DOMAIN algIn.graph.nodes
    IN  /\ \A i \in V : \E k \in DOMAIN palette : algOut[i] = palette[k]
        /\ \A i \in V : \A j \in V :
              algIn.graph.adjacency[i][j] = 1 => algOut[i] # algOut[j]


\* C23: after any sequence of push, undo and redo on a HistoryManager with
\* capacity c >= 1, the stack length is at most c, and once the stack is
\* non-empty the cursor is an index in [0, length-1].
C23_CursorWithinStack ==
  maxSteps >= 1 =>
    /\ Len(stack) <= maxSteps
    /\ Len(stack) > 0 => (0 <= index /\ index <= Len(stack) - 1)

\* a push into a full stack of capacity >= 2 evicted the oldest entry
C23_Witness ==
  /\ lastOp = "push"
  /\ maxSteps >= 2
  /\ Len(pre.stack) = maxSteps
  /\ pre.index = maxSteps - 1
  /\ Len(stack) = maxSteps
  /\ index = maxSteps - 1


\* position u is visited before position v: input order for Greedy, descending
\* degree with ties in input order for Welsh-Powell
visitedBefore(name, adjacency, u, v) ==
  IF name = "greedy" THEN u < v
  ELSE \/ degreeOfRow(adjacency, u) > degreeOfRow(adjacency, v)
       \/ (degreeOfRow(adjacency, u) = degreeOfRow(adjacency, v) /\ u < v)

\* the triangle a-b-c
Triangle == GraphOf(3, PairsOf(3))

\* C24: without constraints, Greedy visits the nodes in input order and
\* Welsh-Powell in descending degree order with ties in input order, and each
\* gives every visited node the smallest colour index in 0..maxColors-1 that
\* no neighbour coloured before it has (maxColors being the number the
\* algorithm works with, options.maxColors || 4); on a triangle with
\* maxColors = 4 Greedy yields the colours 0, 1, 2 with valid = true and
\* chromatic = 3.
C24_FirstFitInVisitOrder ==
  /\ (lastOp \in {"greedy", "welsh-powell"} /\ algOut.valid) =>
       LET g == algIn.graph
           colour(v) == algOut.assignments[g.nodes[v]]
           free(v) == {c \in 0..(effectiveMaxColors(algIn.options) - 1) :
                         \A u \in DOMAIN g.nodes :
                           (g.adjacency[u][v] = 1 /\ visitedBefore(lastOp, g.adjacency, u, v))
                             => colour(u) # c}
       IN  \A v \in DOMAIN g.nodes :
             /\ colour(v) \in free(v)
             /\ \A c \in free(v) : colour(v) <= c
  /\ (lastOp = "welsh-powell" /\ algOut.valid) =>
       LET g == algIn.graph
           order == algOut.metadata.vertexOrder
       IN  /\ Len(order) = NumNodes(g)
           /\ \A p \in 1..Len(order) : \A q \in 1..Len(order) :
                p < q => visitedBefore(lastOp, g.adjacency,
                                       nodeIndex(g.nodes, order[p]), nodeIndex(g.nodes, order[q]))
  /\ (lastOp = "greedy" /\ algIn.graph = Triangle /\ algIn.options.maxColors = 4) =>
       /\ algOut.assignments["a"] = 0
       /\ algOut.assignments["b"] = 1
       /\ algOut.assignments["c"] = 2
       /\ algOut.valid
       /\ algOut.chromatic = 3

\* Welsh-Powell on the path a-b-c: b, of degree 2, is coloured first
C24_Witness ==
  /\ lastOp = "welsh-powell"
  /\ NumNodes(algIn.graph) = 3
  /\ algIn.graph.adjacency[0][1] = 1 /\ algIn.graph.adjacency[1][2] = 1
  /\ algIn.graph.adjacency[0][2] = 0
  /\ algOut.valid
  /\ algOut.assignments["b"] = 0
  /\ algOut.assignments["a"] = 1
  /\ algOut.assignments["c"] = 1


(* --------- DSATUR one iteration at a time (src/unnamed/part_004) -------- *)

\* constraint lists handed to DSATUR: none, one pin, two pins on one node, a
\* pin on an identifier that is no node of the graph
DsaturConstraints ==
  {NoConstraints, <<Pin("b", 1)>>, <<Pin("a", 0), Pin("a", 1)>>, <<Pin(UnknownId, 0)>>}

DsaturInit ==
  /\ Quiet
  /\ lastOp = "input"
  /\ algIn \in [graph : AllGraphs(MaxNodes),
                options : [maxColors : {Undef, 2}, constraints : DsaturConstraints]]
  /\ algOut = Null

\* a step of compute: only the locals of the call, kept in algOut, change
DsaturStep(name, locals) ==
  /\ algOut' = locals
  /\ lastOp' = name
  /\ UNCHANGED <<maxSteps, stack, index, heap, currentGraph, currentColoring, held,
                 clock, ret, args, pre, pushed, moves, algIn>>

\* the locals of compute between two iterations of `while (colored < n)`
Locals(colors, colored, chosenVertex) ==
  [colors |-> colors, colored |-> colored, chosenVertex |-> chosenVertex]

\* the vertex the scan picks from the colours so far, -1 when none is left
nextVertex(colors) ==
  chooseVertex(0, NumNodes(algIn.graph), colors, algIn.graph.adjacency,
               [maxSat |-> -1, maxDeg |-> -1, chosenVertex |-> -1])

\* compute up to the loop: the constraints are applied, the pins are counted
DsaturBegin ==
  /\ lastOp = "input"
  /\ DsaturStep("dsatur:begin",
       Locals(applyConstraints(algIn.graph.nodes, algIn.options.constraints, 1,
                               [i \in 0..(NumNodes(algIn.graph) - 1) |-> Uncolored]),
              pinnedCount(algIn.options.constraints), -1))

\* one iteration of the loop that colours the chosen vertex
DsaturColour ==
  /\ lastOp \in {"dsatur:begin", "dsatur:colour"}
  /\ algOut.colored < NumNodes(algIn.graph)
  /\ LET chosenVertex == nextVertex(algOut.colors)
         availableColors ==
           getAvailableColors(chosenVertex, algOut.colors, algIn.graph.adjacency,
                              effectiveMaxColors(algIn.options))
     IN  /\ chosenVertex # -1
         /\ Len(availableColors) > 0
         /\ DsaturStep("dsatur:colour",
              Locals([algOut.colors EXCEPT ![chosenVertex] = availableColors[1]],
                     algOut.colored + 1, chosenVertex))

\* the three ways out of the loop: its condition fails, the `break`, and the
\* early return when the chosen vertex has no colour left
DsaturReturn ==
  /\ lastOp \in {"dsatur:begin", "dsatur:colour"}
  /\ LET n == NumNodes(algIn.graph)
         maxColors == effectiveMaxColors(algIn.options)
         chosenVertex == nextVertex(algOut.colors)
         finished == algOut.colored >= n \/ chosenVertex = -1
         stuck == ~finished /\
                  Len(getAvailableColors(chosenVertex, algOut.colors,
                                         algIn.graph.adjacency, maxColors)) = 0
     IN  /\ finished \/ stuck
         /\ DsaturStep("dsatur:return",
              IF stuck THEN failure(dsaturPalette(maxColors))
              ELSE success(algIn.graph.nodes, algOut.colors,
                           dsaturPalette(maxColorUsed(algOut.colors) + 1), NoMetadata))

DsaturNext == DsaturBegin \/ DsaturColour \/ DsaturReturn

SpecDsatur == DsaturInit /\ [][DsaturNext]_vars

\* C25: at every step DSATUR colours the uncoloured node whose saturation
\* degree, computed at that step from the colours assigned so far, is highest,
\* breaking ties by highest degree and then by lowest node index, and gives it
\* its smallest available colour.
C25_MostSaturatedFirst ==
  [][lastOp' = "dsatur:colour" =>
       LET g == algIn.graph
           before == algOut.colors
           v == algOut'.chosenVertex
           uncoloured == {u \in DOMAIN g.nodes : before[u] = Uncolored}
           seen(u) == {before[w] : w \in {x \in DOMAIN g.nodes :
                                            g.adjacency[u][x] = 1 /\ before[x] # Uncolored}}
           sat(u) == Cardinality(seen(u))
           deg(u) == Cardinality({x \in DOMAIN g.nodes : g.adjacency[u][x] = 1})
           available == {c \in 0..(effectiveMaxColors(algIn.options) - 1) : c \notin seen(v)}
       IN  /\ v \in uncoloured
           /\ \A u \in uncoloured :
                \/ sat(u) < sat(v)
                \/ (sat(u) = sat(v) /\ deg(u) < deg(v))
                \/ (sat(u) = sat(v) /\ deg(u) = deg(v) /\ v <= u)
           /\ algOut'.colors[v] \in available
           /\ \A c \in available : algOut'.colors[v] <= c
           /\ \A u \in DOMAIN g.nodes : u # v => algOut'.colors[u] = before[u]
    ]_vars

\* the third step of DSATUR on four nodes chose c while d had no colour yet
\* and gave c the colour 2, a and b holding the two smaller ones
C25_Witness ==
  /\ lastOp = "dsatur:colour"
  /\ NumNodes(algIn.graph) = 4
  /\ algOut.colored = 3
  /\ algOut.chosenVertex = 2
  /\ algOut.colors[3] = Uncolored
  /\ algOut.colors[0] # algOut.colors[1]
  /\ algOut.colors[2] = 2


(* -------- colorGraphGreedyBacktrack called directly (src/coloring.js) --- *)

SearchInit ==
  /\ Quiet
  /\ lastOp = "input"
  /\ algIn \in [graph : AllGraphs(MaxNodes), k : 1..MaxK]
  /\ algOut = Null

\* what a call leaves behind: the returned colours, the colours after
\* greedyPrefill() and whether every node was resolved, by the pre-fill alone
\* or by backtrack(i) returning true
searchOutcome(adjacency, k) ==
  LET n == Cardinality(DOMAIN adjacency)
      order == vertexOrderByDegree(adjacency)
      filled == greedyPrefill(adjacency, k, order, 1, [i \in 0..(n - 1) |-> Uncolored])
      open == {i \in 1..n : filled[order[i]] = Uncolored}
  IN  [colors |-> colorGraphGreedyBacktrack(adjacency, k),
       filled |-> filled,
       searched |-> open # {},
       resolved |-> IF open = {} THEN TRUE
                    ELSE backtrack(adjacency, k, order,
                                   CHOOSE i \in open : \A j \in open : i <= j, filled).found]

Search ==
  Run("colorGraphGreedyBacktrack", searchOutcome(algIn.graph.adjacency, algIn.k))

SearchNext == Search

SpecSearch == SearchInit /\ [][SearchNext]_vars

\* C26: colorGraphGreedyBacktrack with k >= 1 colours returns one colour per
\* node, every colour in 0..k-1 and no node left unassigned: when every node
\* was resolved the result is a proper colouring, otherwise every node still
\* unassigned gets the colour 0.
C26_SearchFillsEveryNode ==
  lastOp = "colorGraphGreedyBacktrack" =>
    LET adjacency == algIn.graph.adjacency
        V == DOMAIN adjacency
        colors == algOut.colors
    IN  /\ DOMAIN colors = V
        /\ \A v \in V : colors[v] \in 0..(algIn.k - 1)
        /\ algOut.resolved =>
             \A u \in V : \A v \in V : adjacency[u][v] # 0 => colors[u] # colors[v]
        /\ ~algOut.resolved =>
             \A v \in V :
               colors[v] = IF algOut.filled[v] = Uncolored THEN 0 ELSE algOut.filled[v]

\* K4 with three colours: the pre-fill leaves the last node open, the search
\* fails and the node gets the colour 0
C26_Witness ==
  /\ lastOp = "colorGraphGreedyBacktrack"
  /\ algIn.graph = GraphOf(4, PairsOf(4))
  /\ algIn.k = 3
  /\ ~algOut.resolved
  /\ algOut.filled[3] = Uncolored
  /\ algOut.colors[3] = 0


(* ---------------------- getStatistics on the engine --------------------- *)

\* TheoremEngine._checkPlanarity(): E <= 3V - 6
checkPlanarity(graph) == Len(graph.edges) <= 3 * NumNodes(graph) - 6

\* Math.max(...degrees) and Math.min(...degrees): an infinity for no degrees
maxOf(degrees) ==
  IF degrees = {} THEN [infinity |-> -1]
  ELSE Number(CHOOSE m \in degrees : \A d \in degrees : d <= m)

minOf(degrees) ==
  IF degrees = {} THEN [infinity |-> 1]
  ELSE Number(CHOOSE m \in degrees : \A d \in degrees : m <= d)

RECURSIVE degreeSum(_, _)
degreeSum(adjacency, upto) ==
  IF upto < 0 THEN 0 ELSE degreeOfRow(adjacency, upto) + degreeSum(adjacency, upto - 1)

\* TheoremEngine.getStatistics(); avgDegree is kept as the quotient num / den
getStatistics(graph) ==
  IF graph = Null THEN Null
  ELSE LET degrees == {degreeOfRow(graph.adjacency, i) : i \in DOMAIN graph.nodes}
       IN  [nodeCount |-> NumNodes(graph),
            edgeCount |-> Len(graph.edges),
            avgDegree |-> [num |-> degreeSum(graph.adjacency, NumNodes(graph) - 1),
                           den |-> NumNodes(graph)],
            maxDegree |-> maxOf(degrees),
            minDegree |-> minOf(degrees),
            chromaticNumber |-> getChromaticNumber(graph),
            isPlanar |-> checkPlanarity(graph)]

\* engine.getStatistics()
GetStatistics ==
  /\ Called("getStatistics", Null)
  /\ ret' = getStatistics(currentGraph)
  /\ UNCHANGED <<stack, index, heap, currentGraph, currentColoring, held>>

\* most nodes of a graph whose statistics are asked for
MaxStatsNodes == 3

\* the graphs loaded before the statistics are asked for
StatsGraphs ==
  {[nodes |-> g.nodes, edges |-> g.edges] : g \in AllGraphs(MaxStatsNodes)}

StatsNext ==
  \/ \E g \in StatsGraphs : LoadGraph(g)
  \/ GetStatistics

SpecStats == EngineInit /\ [][StatsNext]_vars

\* C27: getStatistics reports isPlanar = true for every planar graph, for
\* every node count including graphs with 1 or 2 nodes (stated here for the
\* graphs with at least one node).
C27_PlanarReportedPlanar ==
  (/\ lastOp = "getStatistics"
   /\ currentGraph # Null
   /\ NumNodes(currentGraph) >= 1
   /\ Planar(currentGraph.adjacency)) =>
    ret.isPlanar


(* ---- colorGraphGreedyBacktrack one step at a time (src/coloring.js) ---- *)

\* nodes of the graphs on which the computations are followed step by step
TermNodeIds == <<"a", "b", "c">>

\* largest maxColors of these computations
TermK == 2

\* the arguments a caller may pass
TermInputs ==
  [graph : AllGraphs(Len(TermNodeIds)),
   options : [maxColors : 0..TermK, constraints : DsaturConstraints]]

\* no computation has been asked for yet
TermInit ==
  /\ Quiet
  /\ lastOp = "idle"
  /\ algIn = Null
  /\ algOut = Null

\* the caller hands over a graph and its options
TermCall(input) ==
  /\ lastOp = "idle"
  /\ algIn' = input
  /\ lastOp' = "input"
  /\ UNCHANGED <<maxSteps, stack, index, heap, currentGraph, currentColoring, held,
                 clock, ret, args, pre, pushed, moves, algOut>>

\* the locals of a call: where it is, the loop counter i, the colours and the
\* frames [idx, c] of the calls of backtrack that have not returned yet
SearchLocals(pc, i, colors, frames) ==
  [pc |-> pc, i |-> i, colors |-> colors, frames |-> frames]

\* `if (colors[v] !== -1) return backtrack(idx + 1)`: the first index from idx
\* on that is n or holds an unresolved node
RECURSIVE enter(_, _, _)
enter(order, colors, idx) ==
  IF idx >= Len(order) \/ colors[order[idx + 1]] = Uncolored THEN idx
  ELSE enter(order, colors, idx + 1)

\* the call starts: n, colors and order are set up
SearchBegin ==
  /\ lastOp = "input"
  /\ DsaturStep("search:begin",
       SearchLocals("prefill", 0,
                    [v \in 0..(NumNodes(algIn.graph) - 1) |-> Uncolored], <<>>))

\* one iteration of the loop of greedyPrefill()
PrefillStep ==
  /\ lastOp \in {"search:begin", "search:prefill"}
  /\ algOut.pc = "prefill"
  /\ algOut.i < NumNodes(algIn.graph)
  /\ LET order == vertexOrderByDegree(algIn.graph.adjacency)
     IN  DsaturStep("search:prefill",
           SearchLocals("prefill", algOut.i + 1,
             greedyPrefill(algIn.graph.adjacency, algIn.options.maxColors,
                           SubSeq(order, algOut.i + 1, algOut.i + 1), 1, algOut.colors),
             <<>>))

\* `for (...) if (colors[order[i]] === -1) { backtrack(i); break; }` up to the
\* call of backtrack, or to the end of the loop when no node is unresolved
SearchStart ==
  /\ lastOp \in {"search:begin", "search:prefill"}
  /\ algOut.pc = "prefill"
  /\ algOut.i >= NumNodes(algIn.graph)
  /\ LET order == vertexOrderByDegree(algIn.graph.adjacency)
         first == enter(order, algOut.colors, 0)
     IN  DsaturStep("search:start",
           IF first >= Len(order)
             THEN SearchLocals("fallback", 0, algOut.colors, <<>>)
             ELSE SearchLocals("backtrack", 0, algOut.colors, <<[idx |-> first, c |-> 0]>>))

\* one step of the innermost call of backtrack: it returns true at idx = n,
\* returns false when its loop over c is over (the caller then undoes its own
\* colour and goes on with its next c), colours v and calls backtrack(idx + 1)
\* when c is safe, or goes on with c + 1
BacktrackStep ==
  /\ lastOp \in {"search:start", "search:backtrack"}
  /\ algOut.pc = "backtrack"
  /\ LET order == vertexOrderByDegree(algIn.graph.adjacency)
         k == algIn.options.maxColors
         depth == Len(algOut.frames)
         top == algOut.frames[depth]
         callers == SubSeq(algOut.frames, 1, depth - 1)
     IN  DsaturStep("search:backtrack",
           IF top.idx >= Len(order)
             THEN SearchLocals("fallback", 0, algOut.colors, <<>>)
           ELSE IF top.c >= k
             THEN IF depth = 1
                    THEN SearchLocals("fallback", 0, algOut.colors, <<>>)
                    ELSE LET caller == algOut.frames[depth - 1]
                         IN  SearchLocals("backtrack", 0,
                               [algOut.colors EXCEPT ![order[caller.idx + 1]] = Uncolored],
                               [callers EXCEPT ![depth - 1].c = caller.c + 1])
           ELSE IF isSafe(algIn.graph.adjacency, algOut.colors, order[top.idx + 1], top.c)
             THEN LET coloured == [algOut.colors EXCEPT ![order[top.idx + 1]] = top.c]
                  IN  SearchLocals("backtrack", 0, coloured,
                        Append(algOut.frames,
                               [idx |-> enter(order, coloured, top.idx + 1), c |-> 0]))
           ELSE SearchLocals("backtrack", 0, algOut.colors,
                             [algOut.frames EXCEPT ![depth].c = top.c + 1]))

\* a last loop that never moves on to the next node
FallbackStep_noAdvance ==
  /\ lastOp \in {"search:start", "search:backtrack", "search:fallback"}
  /\ algOut.pc = "fallback"
  /\ algOut.i < NumNodes(algIn.graph)
  /\ DsaturStep("search:fallback",
       SearchLocals("fallback", algOut.i,
         IF algOut.colors[algOut.i] = Uncolored
           THEN [algOut.colors EXCEPT ![algOut.i] = 0] ELSE algOut.colors,
         <<>>))

\* one iteration of `for (...) if (colors[i] === -1) colors[i] = 0`
FallbackStep ==
  /\ lastOp \in {"search:start", "search:backtrack", "search:fallback"}
  /\ algOut.pc = "fallback"
  /\ algOut.i < NumNodes(algIn.graph)
  /\ DsaturStep("search:fallback",
       SearchLocals("fallback", algOut.i + 1,
         IF algOut.colors[algOut.i] = Uncolored
           THEN [algOut.colors EXCEPT ![algOut.i] = 0] ELSE algOut.colors,
         <<>>))

\* `return colors`
SearchReturn ==
  /\ lastOp \in {"search:start", "search:backtrack", "search:fallback"}
  /\ algOut.pc = "fallback"
  /\ algOut.i >= NumNodes(algIn.graph)
  /\ DsaturStep("search:return", SearchLocals("returned", algOut.i, algOut.colors, <<>>))

TermNext ==
  \/ \E input \in TermInputs : TermCall(input)
  \/ DsaturBegin
  \/ DsaturColour
  \/ DsaturReturn
  \/ SearchBegin
  \/ PrefillStep
  \/ SearchStart
  \/ BacktrackStep
  \/ FallbackStep
  \/ SearchReturn

\* every operation runs to completion on the single thread: a computation
\* that can take a step takes it
SpecTerminates == TermInit /\ [][TermNext]_vars /\ WF_vars(TermNext)

\* C28: every colouring computation terminates on every finite graph and
\* every maxColors >= 0: the Backtracking search (pre-fill, depth-first
\* search, fallback fill) and the DSATUR selection loop each reach a returned
\* result after finitely many steps.
C28_ComputationsReturn ==
  <>(lastOp \in {"dsatur:return", "search:return"})

\* the search returned on the triangle with two colours: the pre-fill left c
\* open, backtrack gave up and the fallback set c to 0
C28_Witness ==
  /\ lastOp = "search:return"
  /\ algIn.graph = Triangle
  /\ algIn.options.maxColors = 2
  /\ algOut.colors[0] = 0
  /\ algOut.colors[1] = 1
  /\ algOut.colors[2] = 0


\* C29: whenever DSATUR returns an assignment flagged valid = true, every
\* node of the graph has an entry in the mapping, for every constraint list,
\* including lists with constraints on unknown node identifiers or several
\* constraints on the same node.
C29_ValidDsaturColoursAll ==
  (lastOp = "dsatur" /\ algOut.valid) =>
    \A id \in nodeIds(algIn.graph) : algOut.assignments[id] # Undef


\* C30: whenever Greedy, Welsh-Powell or DSATUR returns an assignment flagged
\* valid = true, no two adjacent nodes have the same colour in it (the
\* Validator agrees with the flag) and every colour index is below maxColors,
\* for every graph and every constraint list, including constraints that pin
\* two adjacent nodes to the same colour.
C30_ValidFlagMeansProper ==
  (lastOp \in Heuristics /\ algOut.valid) =>
    /\ validate(algIn.graph, algOut.assignments)
    /\ \A id \in nodeIds(algIn.graph) :
         algOut.assignments[id] < effectiveMaxColors(algIn.options)

====
